---- MODULE Spec2Model ----
(***************************************************************************)
(* litestripe: Stripe webhook dispatch (views.stripe_webhook), the handler *)
(* registry (handlers.stripe_webhook_handler) and the reconciliation of    *)
(* events into StripeSubscription rows (handlers.update_or_create_         *)
(* subscription, handlers.handle_checkout_session_completed).              *)
(*                                                                         *)
(* Conventions.  A Python value that may be None is a set with at most one *)
(* element: None is {} and the value v is {v}.  dict.get(k) of a key that  *)
(* was not sent, and of a key sent as JSON null, are both None in the code *)
(* and therefore the same here.  A datetime is the integer number of       *)
(* seconds of its instant since the Unix epoch (UTC).                      *)
(***************************************************************************)
EXTENDS Integers, Sequences, FiniteSets, TLC

VARIABLES
    registry,    \* handlers.stripe_webhook_handlers: event type -> list of handlers
    store,       \* table of StripeSubscription rows, row pk = index
    orphans,     \* table of OrphanedPayment rows
    clock,       \* wall clock (datetime.now), one tick per received request
    tz,          \* UTC offset of the process's local time zone, in seconds
    last,        \* the last request served by stripe_webhook and what it did
    pc,          \* per worker: position inside a handler that runs stepwise
    job          \* per worker: event being handled and the in-memory model object

vars == <<registry, store, orphans, clock, tz, last, pc, job>>

None == {}

Some(v) == {v}

\* the value inside a non-None optional
The(o) == CHOOSE v \in o : TRUE

----------------------------------------------------------------------------
(* Bounds of the model *)

\* requests served in one behaviour
MaxRequests == 2

\* handlers an embedding project registers besides litestripe's own
MaxRegistrations == 2

----------------------------------------------------------------------------
(* Values the inputs are drawn from *)

T1 == 1700000000

T2 == T1 + 86400

\* local zones a deployment may run in: UTC, and America/Chicago (CST)
TZOffsets == {0, -21600}

UPDATED == "customer.subscription.updated"

CREATED == "customer.subscription.created"

CHECKOUT == "checkout.session.completed"

UNHANDLED == "invoice.paid"

LAST_RENEWED == "litestripe.stripesubscription.last_renewed"

HCSU == "handle_customer_subscription_updated"

HCSC == "handle_checkout_session_completed"

----------------------------------------------------------------------------
(* models.py *)

\* StripeSubscription(stripe_subscription_id=sid) as the ORM creates it:
\* CharFields default to '', nullable fields to NULL, audit stamps to now.
NewSubscription(pk, sid, now) ==
    [ pk                     |-> pk,
      stripe_subscription_id |-> sid,
      stripe_customer_id     |-> "",
      client_reference_id    |-> "",
      created                |-> None,
      start_date             |-> None,
      cancel_at              |-> None,
      cancelled_at           |-> None,
      cancel_at_period_end   |-> None,
      status                 |-> "",
      metadata               |-> None,
      dt_created             |-> now,
      dt_last_updated        |-> now ]

\* StripeSubscription.get_metadata: json.loads of the text column, {} when the
\* column is NULL or empty.  The JSON text of a dict with string keys and
\* string values is modelled by the dict itself (a function).
get_metadata(self) ==
    IF self.metadata = None THEN <<>> ELSE The(self.metadata)

\* set_metadata that dumps only the new pair instead of the updated dict
set_metadata_replacing(self, key, value) ==
    [self EXCEPT !.metadata = Some([k \in {key} |-> value])]

\* StripeSubscription.set_metadata: data[key] = value; self.metadata = dumps(data)
set_metadata(self, key, value) ==
    LET data == get_metadata(self)
        data2 == [k \in (DOMAIN data) \cup {key} |->
                     IF k = key THEN value ELSE data[k]]
    IN  [self EXCEPT !.metadata = Some(data2)]

\* StripeSubscription.get_metadata_key
get_metadata_key(self, key) ==
    LET data == get_metadata(self)
    IN  IF key \in DOMAIN data THEN Some(data[key]) ELSE None

----------------------------------------------------------------------------
(* handlers.py *)

\* dict.get(k): None when the key is missing
Get(d, k) == IF k \in DOMAIN d THEN d[k] ELSE None

\* Python truthiness of an optional int / str / dict
TruthyInt(o) == o # None /\ The(o) # 0

TruthyStr(o) == o # None /\ The(o) # ""

TruthyDict(o) == o # None /\ DOMAIN The(o) # {}

\* convert_to_datetime: a falsy timestamp (None or 0) gives None; otherwise
\* datetime.fromtimestamp(ts) is the naive LOCAL wall time of ts, which
\* make_aware(..., timezone=utc) then labels as UTC: the instant ts + offset.
convert_to_datetime(timestamp, offset) ==
    IF TruthyInt(timestamp) THEN Some(The(timestamp) + offset) ELSE None

\* a payload value that is not a number (a JSON string such as "soon") where a
\* Unix timestamp belongs; it is truthy in Python
NonNumeric == 0 - 1

\* convert_to_datetime raising: a truthy value passes `if timestamp:` and
\* datetime.fromtimestamp() raises TypeError for anything but a number
convert_raises(timestamp) == timestamp # None /\ The(timestamp) = NonNumeric

\* the namespaced metadata key f"{event_type}.{key}"
NsKey(event_type, key) == event_type \o "." \o key

\* for key, value in metadata.items(): subscription.set_metadata(prefix.key, value)
RECURSIVE store_metadata(_, _, _, _)
store_metadata(subscription, prefix, metadata, keys) ==
    IF keys = {} THEN subscription
    ELSE LET k == CHOOSE x \in keys : TRUE
         IN  store_metadata(set_metadata(subscription, NsKey(prefix, k), metadata[k]),
                            prefix, metadata, keys \ {k})

\* StripeSubscription.objects.get_or_create(stripe_subscription_id=sid), first
\* half: the SELECT.  Rows whose id equals sid; a None sid compiles to IS NULL
\* and matches nothing, the column being NOT NULL.
Matching(st, sid) ==
    IF sid = None THEN {}
    ELSE {i \in DOMAIN st : st[i].stripe_subscription_id = The(sid)}

\* get_or_create as one uninterrupted call
\*   [store, obj, raised]: raised is "" or the exception's name
get_or_create(st, sid, now) ==
    LET m == Matching(st, sid)
    IN  IF Cardinality(m) > 1
        THEN [store |-> st, obj |-> None, raised |-> "MultipleObjectsReturned"]
        ELSE IF Cardinality(m) = 1
        THEN [store |-> st, obj |-> Some(st[CHOOSE i \in m : TRUE]), raised |-> ""]
        ELSE IF sid = None
        THEN [store |-> st, obj |-> None, raised |-> "IntegrityError"]
        ELSE LET row == NewSubscription(Len(st) + 1, The(sid), now)
             IN  [store |-> Append(st, row), obj |-> Some(row), raised |-> ""]

\* Model.save(): UPDATE of every column of the row with the object's pk;
\* auto_now stamps dt_last_updated
save(st, obj, now) ==
    [st EXCEPT ![obj.pk] = [obj EXCEPT !.dt_last_updated = now]]

\* the renewal check comparing the stored datetime with the raw timestamp
check_subscription_renewal_unconverted(subscription, previous_attributes, offset) ==
    /\ TruthyDict(previous_attributes)
    /\ LET previous_cancel_at == Get(The(previous_attributes), "cancel_at")
       IN  /\ TruthyInt(previous_cancel_at)
           /\ subscription.cancel_at = previous_cancel_at

\* the renewal check that takes any previous cancel_at for a renewal
check_subscription_renewal_any(subscription, previous_attributes, offset) ==
    /\ TruthyDict(previous_attributes)
    /\ TruthyInt(Get(The(previous_attributes), "cancel_at"))

\* check_subscription_renewal (nested in update_or_create_subscription)
check_subscription_renewal(subscription, previous_attributes, offset) ==
    /\ TruthyDict(previous_attributes)
    /\ LET previous_cancel_at == Get(The(previous_attributes), "cancel_at")
       IN  /\ TruthyInt(previous_cancel_at)
           /\ LET dt_previous_cancel_at == convert_to_datetime(previous_cancel_at, offset)
              IN  /\ dt_previous_cancel_at # None
                  /\ subscription.cancel_at = dt_previous_cancel_at

\* check_subscription_renewal raising: it converts a truthy previous cancel_at
renewal_check_raises(previous_attributes) ==
    /\ TruthyDict(previous_attributes)
    /\ convert_raises(Get(The(previous_attributes), "cancel_at"))

\* update_or_create_subscription, lines 55-73: an exception leaves the function
\* between get_or_create and save.  The renewal check runs first; each guarded
\* assignment converts its timestamp, the two cancellation fields only when
\* no renewal was detected.
merge_subscription_raises(subscription, subscription_data, previous_attributes, offset) ==
    \/ renewal_check_raises(previous_attributes)
    \/ /\ ~renewal_check_raises(previous_attributes)
       /\ \/ convert_raises(Get(subscription_data, "created"))
          \/ convert_raises(Get(subscription_data, "start_date"))
          \/ /\ ~check_subscription_renewal(subscription, previous_attributes, offset)
             /\ \/ convert_raises(Get(subscription_data, "cancel_at"))
                \/ convert_raises(Get(subscription_data, "canceled_at"))

\* the merge that does not clear cancel_at when a renewal is detected
merge_subscription_keeping_cancel_at(subscription, event_type, subscription_data, previous_attributes, now, offset) ==
    LET stripe_customer_id   == Get(subscription_data, "customer")
        status               == Get(subscription_data, "status")
        metadata             == IF "metadata" \in DOMAIN subscription_data
                                   /\ subscription_data.metadata # None
                                THEN The(subscription_data.metadata) ELSE <<>>
        created_timestamp    == Get(subscription_data, "created")
        start_date           == Get(subscription_data, "start_date")
        cancel_at            == Get(subscription_data, "cancel_at")
        cancelled_at         == Get(subscription_data, "canceled_at")
        cancel_at_period_end == Get(subscription_data, "cancel_at_period_end")
        is_renewed == check_subscription_renewal(subscription, previous_attributes, offset)
        s1 == IF TruthyStr(stripe_customer_id)
              THEN [subscription EXCEPT !.stripe_customer_id = The(stripe_customer_id)]
              ELSE subscription
        s2 == IF created_timestamp # None
              THEN [s1 EXCEPT !.created = convert_to_datetime(created_timestamp, offset)]
              ELSE s1
        s3 == IF start_date # None
              THEN [s2 EXCEPT !.start_date = convert_to_datetime(start_date, offset)]
              ELSE s2
        s4 == IF cancel_at # None
              THEN [s3 EXCEPT !.cancel_at = convert_to_datetime(cancel_at, offset)]
              ELSE s3
        s5 == IF cancelled_at # None \/ is_renewed
              THEN [s4 EXCEPT !.cancelled_at =
                       IF is_renewed THEN None ELSE convert_to_datetime(cancelled_at, offset)]
              ELSE s4
        s6 == IF cancel_at_period_end # None
              THEN [s5 EXCEPT !.cancel_at_period_end = cancel_at_period_end]
              ELSE s5
        s7 == IF TruthyStr(status)
              THEN [s6 EXCEPT !.status = The(status)]
              ELSE s6
        s8 == store_metadata(s7, event_type, metadata, DOMAIN metadata)
    IN  IF is_renewed THEN set_metadata(s8, LAST_RENEWED, ToString(now)) ELSE s8

\* update_or_create_subscription, lines 55-85: the in-memory merge of one
\* event into the model object
merge_subscription(subscription, event_type, subscription_data, previous_attributes, now, offset) ==
    LET stripe_customer_id   == Get(subscription_data, "customer")
        status               == Get(subscription_data, "status")
        metadata             == IF "metadata" \in DOMAIN subscription_data
                                   /\ subscription_data.metadata # None
                                THEN The(subscription_data.metadata) ELSE <<>>
        created_timestamp    == Get(subscription_data, "created")
        start_date           == Get(subscription_data, "start_date")
        cancel_at            == Get(subscription_data, "cancel_at")
        cancelled_at         == Get(subscription_data, "canceled_at")
        cancel_at_period_end == Get(subscription_data, "cancel_at_period_end")
        is_renewed == check_subscription_renewal(subscription, previous_attributes, offset)
        s1 == IF TruthyStr(stripe_customer_id)
              THEN [subscription EXCEPT !.stripe_customer_id = The(stripe_customer_id)]
              ELSE subscription
        s2 == IF created_timestamp # None
              THEN [s1 EXCEPT !.created = convert_to_datetime(created_timestamp, offset)]
              ELSE s1
        s3 == IF start_date # None
              THEN [s2 EXCEPT !.start_date = convert_to_datetime(start_date, offset)]
              ELSE s2
        s4 == IF cancel_at # None \/ is_renewed
              THEN [s3 EXCEPT !.cancel_at =
                       IF is_renewed THEN None ELSE convert_to_datetime(cancel_at, offset)]
              ELSE s3
        s5 == IF cancelled_at # None \/ is_renewed
              THEN [s4 EXCEPT !.cancelled_at =
                       IF is_renewed THEN None ELSE convert_to_datetime(cancelled_at, offset)]
              ELSE s4
        s6 == IF cancel_at_period_end # None
              THEN [s5 EXCEPT !.cancel_at_period_end = cancel_at_period_end]
              ELSE s5
        s7 == IF TruthyStr(status)
              THEN [s6 EXCEPT !.status = The(status)]
              ELSE s6
        s8 == store_metadata(s7, event_type, metadata, DOMAIN metadata)
    IN  IF is_renewed THEN set_metadata(s8, LAST_RENEWED, ToString(now)) ELSE s8

\* update_or_create_subscription run without interruption
\*   [store, orphans, raised]
update_or_create_subscription(st, orph, event_type, subscription_data, previous_attributes, now, offset) ==
    LET got == get_or_create(st, Get(subscription_data, "id"), now)
    IN  IF got.raised # ""
        THEN [store |-> got.store, orphans |-> orph, raised |-> got.raised]
        ELSE IF merge_subscription_raises(The(got.obj), subscription_data, previous_attributes, offset)
        THEN \* the exception passes save(); get_or_create's INSERT stays
             [store |-> got.store, orphans |-> orph, raised |-> "TypeError"]
        ELSE [store   |-> save(got.store,
                               merge_subscription(The(got.obj), event_type,
                                                  subscription_data,
                                                  previous_attributes, now, offset),
                               now),
              orphans |-> orph,
              raised  |-> ""]

\* orphaned_payment_handler: OrphanedPayment.objects.create(...)
orphaned_payment_handler(orph, event_obj, stripe_customer_id, customer_email, reason, now) ==
    Append(orph, [ stripe_customer_id |-> stripe_customer_id,
                   customer_email     |-> customer_email,
                   event              |-> event_obj,
                   reason             |-> reason,
                   created_at         |-> now ])

\* handle_customer_subscription_updated
handle_customer_subscription_updated(st, orph, event, now, offset) ==
    LET subscription_data == event.data.object
        previous_data == IF TruthyDict(event.data.previous_attributes)
                         THEN event.data.previous_attributes ELSE None
    IN  update_or_create_subscription(st, orph, event.type, subscription_data,
                                      previous_data, now, offset)

\* the checkout merge assigning created without the presence test
merge_checkout_blanking(subscription, session, offset) ==
    LET stripe_customer_id  == Get(session, "customer")
        client_reference_id == Get(session, "client_reference_id")
        metadata            == IF "metadata" \in DOMAIN session /\ session.metadata # None
                               THEN The(session.metadata) ELSE <<>>
        s1 == IF TruthyStr(stripe_customer_id)
              THEN [subscription EXCEPT !.stripe_customer_id = The(stripe_customer_id)]
              ELSE subscription
        s2 == IF TruthyStr(client_reference_id)
              THEN [s1 EXCEPT !.client_reference_id = The(client_reference_id)]
              ELSE s1
        s3 == [s2 EXCEPT !.created = convert_to_datetime(Get(session, "created"), offset)]
    IN  IF DOMAIN metadata # {}
        THEN store_metadata(s3, CHECKOUT, metadata, DOMAIN metadata)
        ELSE s3

\* the checkout merge that also treats the checkout as a renewal
merge_checkout_renewing(subscription, session, offset) ==
    LET stripe_customer_id  == Get(session, "customer")
        client_reference_id == Get(session, "client_reference_id")
        metadata            == IF "metadata" \in DOMAIN session /\ session.metadata # None
                               THEN The(session.metadata) ELSE <<>>
        s1 == IF TruthyStr(stripe_customer_id)
              THEN [subscription EXCEPT !.stripe_customer_id = The(stripe_customer_id)]
              ELSE subscription
        s2 == IF TruthyStr(client_reference_id)
              THEN [s1 EXCEPT !.client_reference_id = The(client_reference_id)]
              ELSE s1
        s3 == IF TruthyInt(Get(session, "created"))
              THEN [s2 EXCEPT !.created = convert_to_datetime(Get(session, "created"), offset)]
              ELSE s2
        s4 == [s3 EXCEPT !.cancel_at = None, !.cancelled_at = None]
    IN  IF DOMAIN metadata # {}
        THEN store_metadata(s4, CHECKOUT, metadata, DOMAIN metadata)
        ELSE s4

\* handle_checkout_session_completed, lines 154-163: the in-memory merge
merge_checkout(subscription, session, offset) ==
    LET stripe_customer_id  == Get(session, "customer")
        client_reference_id == Get(session, "client_reference_id")
        metadata            == IF "metadata" \in DOMAIN session /\ session.metadata # None
                               THEN The(session.metadata) ELSE <<>>
        s1 == IF TruthyStr(stripe_customer_id)
              THEN [subscription EXCEPT !.stripe_customer_id = The(stripe_customer_id)]
              ELSE subscription
        s2 == IF TruthyStr(client_reference_id)
              THEN [s1 EXCEPT !.client_reference_id = The(client_reference_id)]
              ELSE s1
        s3 == IF TruthyInt(Get(session, "created"))
              THEN [s2 EXCEPT !.created = convert_to_datetime(Get(session, "created"), offset)]
              ELSE s2
    IN  IF DOMAIN metadata # {}
        THEN store_metadata(s3, CHECKOUT, metadata, DOMAIN metadata)
        ELSE s3

\* handle_checkout_session_completed run without interruption
handle_checkout_session_completed(st, orph, event, now, offset) ==
    LET session == event.data.object
        subscription_id == Get(session, "subscription")
    IN  IF ~TruthyStr(subscription_id)
        THEN \* logger.warning(...); return
             [store |-> st, orphans |-> orph, raised |-> ""]
        ELSE LET got == get_or_create(st, subscription_id, now)
             IN  IF got.raised # ""
                 THEN [store |-> got.store, orphans |-> orph, raised |-> got.raised]
                 ELSE IF convert_raises(Get(session, "created"))
                 THEN [store |-> got.store, orphans |-> orph, raised |-> "TypeError"]
                 ELSE [store   |-> save(got.store,
                                        merge_checkout(The(got.obj), session, offset),
                                        now),
                       orphans |-> orph,
                       raised  |-> ""]

----------------------------------------------------------------------------
(* the registry and the handlers it can hold *)

\* stand-ins for handlers an embedding project registers with the decorator:
\* one that returns, one that raises.  They do not touch litestripe's tables.
PROJECT_OK == "project_handler_ok"

PROJECT_RAISES == "project_handler_raises"

ProjectHandlers == {PROJECT_OK, PROJECT_RAISES}

\* the decorator assigning a fresh list on every registration
stripe_webhook_handler_replacing(reg, event_type, func) ==
    [t \in (DOMAIN reg) \cup {event_type} |->
        IF t = event_type THEN <<func>> ELSE reg[t]]

\* stripe_webhook_handler(event_type)(func): append, creating the list if absent
stripe_webhook_handler(reg, event_type, func) ==
    LET reg1 == IF event_type \notin DOMAIN reg
                THEN [t \in (DOMAIN reg) \cup {event_type} |->
                         IF t = event_type THEN <<>> ELSE reg[t]]
                ELSE reg
    IN  [reg1 EXCEPT ![event_type] = Append(reg1[event_type], func)]

\* the registry once handlers.py has been imported (lines 126-137): decorators
\* apply bottom-up, so "updated" is registered before "created"
ImportedRegistry ==
    stripe_webhook_handler(
        stripe_webhook_handler(
            stripe_webhook_handler(<<>>, UPDATED, HCSU),
            CREATED, HCSU),
        CHECKOUT, HCSC)

\* handler(event): the call of one registered handler
\*   [store, orphans, raised]
CallHandler(handler, st, orph, event, now, offset) ==
    IF handler = HCSU THEN handle_customer_subscription_updated(st, orph, event, now, offset)
    ELSE IF handler = HCSC THEN handle_checkout_session_completed(st, orph, event, now, offset)
    ELSE IF handler = PROJECT_RAISES
    THEN [store |-> st, orphans |-> orph, raised |-> "RuntimeError"]
    ELSE [store |-> st, orphans |-> orph, raised |-> ""]

----------------------------------------------------------------------------
(* views.py *)

\* the loop without its try/except: the first exception ends the dispatch
RECURSIVE dispatch_loop_unguarded(_, _, _, _, _, _, _, _)
dispatch_loop_unguarded(handlers, i, st, orph, event, now, offset, calls) ==
    IF i > Len(handlers)
    THEN [store |-> st, orphans |-> orph, calls |-> calls]
    ELSE LET r == CallHandler(handlers[i], st, orph, event, now, offset)
             calls1 == Append(calls, [handler |-> handlers[i], raised |-> r.raised])
         IN  IF r.raised # ""
             THEN [store |-> r.store, orphans |-> r.orphans, calls |-> calls1]
             ELSE dispatch_loop_unguarded(handlers, i + 1, r.store, r.orphans, event,
                                          now, offset, calls1)

\* the loop logging a success for every handler, the failed ones included
RECURSIVE dispatch_loop_all_success(_, _, _, _, _, _, _, _)
dispatch_loop_all_success(handlers, i, st, orph, event, now, offset, calls) ==
    IF i > Len(handlers)
    THEN [store |-> st, orphans |-> orph, calls |-> calls]
    ELSE LET r == CallHandler(handlers[i], st, orph, event, now, offset)
         IN  dispatch_loop_all_success(handlers, i + 1, r.store, r.orphans, event, now,
                                       offset,
                                       Append(calls, [handler |-> handlers[i], raised |-> ""]))

\* the loop of stripe_webhook, lines 40-48, from handler number i on:
\* try: handler(event) except Exception: logger.error(...)
\*   [store, orphans, calls]
RECURSIVE dispatch_loop(_, _, _, _, _, _, _, _)
dispatch_loop(handlers, i, st, orph, event, now, offset, calls) ==
    IF i > Len(handlers)
    THEN [store |-> st, orphans |-> orph, calls |-> calls]
    ELSE LET r == CallHandler(handlers[i], st, orph, event, now, offset)
         IN  dispatch_loop(handlers, i + 1, r.store, r.orphans, event, now, offset,
                           Append(calls, [handler |-> handlers[i], raised |-> r.raised]))

\* stripe_webhook answering 500 when a handler raised
serve_failing(reg, st, orph, request, now, offset) ==
    IF ~request.uuid_ok
    THEN [store |-> st, orphans |-> orph, status |-> 404, body |-> "Unconfigured endpoint",
          calls |-> <<>>, no_handlers |-> FALSE]
    ELSE IF request.construct_event # "ok"
    THEN [store |-> st, orphans |-> orph, status |-> 400, body |-> "Invalid",
          calls |-> <<>>, no_handlers |-> FALSE]
    ELSE LET event == request.event
             handlers == IF event.type \in DOMAIN reg THEN reg[event.type] ELSE <<>>
             r == dispatch_loop(handlers, 1, st, orph, event, now, offset, <<>>)
             failed == \E i \in DOMAIN r.calls : r.calls[i].raised # ""
         IN  [store |-> r.store, orphans |-> r.orphans,
              status |-> IF failed THEN 500 ELSE 200,
              body |-> IF failed THEN "error" ELSE "success",
              calls |-> r.calls, no_handlers |-> (handlers = <<>>)]

\* stripe_webhook going on to the dispatch after a failed signature check
serve_unverified(reg, st, orph, request, now, offset) ==
    IF ~request.uuid_ok
    THEN [store |-> st, orphans |-> orph, status |-> 404, body |-> "Unconfigured endpoint",
          calls |-> <<>>, no_handlers |-> FALSE]
    ELSE IF request.construct_event = "ValueError"
    THEN [store |-> st, orphans |-> orph, status |-> 400, body |-> "Invalid payload",
          calls |-> <<>>, no_handlers |-> FALSE]
    ELSE LET event == request.event
             handlers == IF event.type \in DOMAIN reg THEN reg[event.type] ELSE <<>>
             r == dispatch_loop(handlers, 1, st, orph, event, now, offset, <<>>)
         IN  [store |-> r.store, orphans |-> r.orphans, status |-> 200, body |-> "success",
              calls |-> r.calls, no_handlers |-> (handlers = <<>>)]

\* stripe_webhook(request, hook_uuid) as a function of the tables
\*   [store, orphans, status, body, calls, no_handlers]
serve(reg, st, orph, request, now, offset) ==
    IF ~request.uuid_ok
    THEN [store |-> st, orphans |-> orph, status |-> 404, body |-> "Unconfigured endpoint",
          calls |-> <<>>, no_handlers |-> FALSE]
    ELSE IF request.construct_event = "ValueError"
    THEN [store |-> st, orphans |-> orph, status |-> 400, body |-> "Invalid payload",
          calls |-> <<>>, no_handlers |-> FALSE]
    ELSE IF request.construct_event = "SignatureVerificationError"
    THEN [store |-> st, orphans |-> orph, status |-> 400, body |-> "Invalid signature",
          calls |-> <<>>, no_handlers |-> FALSE]
    ELSE LET event == request.event
             handlers == IF event.type \in DOMAIN reg THEN reg[event.type] ELSE <<>>
             r == dispatch_loop(handlers, 1, st, orph, event, now, offset, <<>>)
         IN  [store |-> r.store, orphans |-> r.orphans, status |-> 200, body |-> "success",
              calls |-> r.calls, no_handlers |-> (handlers = <<>>)]

----------------------------------------------------------------------------
(* Inputs *)

\* a customer.subscription.* object that carries only its id
BareSubscription ==
    [ id                   |-> Some("sub_1"),
      customer             |-> None,
      status               |-> None,
      created              |-> None,
      start_date           |-> None,
      cancel_at            |-> None,
      canceled_at          |-> None,
      cancel_at_period_end |-> None,
      metadata             |-> None ]

\* a subscription object with every plain field sent
FullSubscription ==
    [ BareSubscription EXCEPT
        !.customer = Some("cus_1"), !.status = Some("active"),
        !.created = Some(T1), !.start_date = Some(T1),
        !.cancel_at_period_end = Some(FALSE),
        !.metadata = Some([plan |-> "pro"]) ]

\* bare and full objects under every combination of the cancellation fields
CancelObjects ==
    { [b EXCEPT !.cancel_at = c, !.canceled_at = d] :
        b \in {BareSubscription, FullSubscription},
        c \in {None, Some(0), Some(T1), Some(T2)},
        d \in {None, Some(T2)} }

\* objects that send exactly one field besides the id
SingleFieldObjects ==
    { [BareSubscription EXCEPT ![fv[1]] = fv[2]] :
        fv \in { <<"customer", Some("")>>, <<"customer", Some("cus_2")>>,
                 <<"status", Some("")>>, <<"status", Some("canceled")>>,
                 <<"created", Some(0)>>, <<"created", Some(T2)>>,
                 <<"start_date", Some(0)>>, <<"start_date", Some(T2)>>,
                 <<"canceled_at", Some(0)>>,
                 <<"cancel_at_period_end", Some(TRUE)>>,
                 <<"metadata", Some(<<>>)>>,
                 <<"metadata", Some([plan |-> "basic"])>> } }

\* data.previous_attributes of an update: not sent, or the former cancel_at
PreviousAttributes ==
    { None, Some([cancel_at |-> Some(T1)]), Some([cancel_at |-> Some(T2)]) }

Event(type, object, previous_attributes) ==
    [ id   |-> "evt_1",
      type |-> type,
      data |-> [object |-> object, previous_attributes |-> previous_attributes] ]

\* customer.subscription.created never carries previous_attributes
SubscriptionEvents ==
    { Event(UPDATED, o, p) : o \in CancelObjects, p \in PreviousAttributes }
    \cup { Event(UPDATED, o, None) : o \in SingleFieldObjects }
    \cup { Event(CREATED, o, None) : o \in { x \in CancelObjects : x.canceled_at = None } }

\* a checkout.session object that carries only its subscription
BareSession ==
    [ subscription        |-> Some("sub_1"),
      customer            |-> None,
      client_reference_id |-> None,
      customer_email      |-> None,
      created             |-> None,
      metadata            |-> None ]

\* a session with every field sent
FullSession ==
    [ BareSession EXCEPT
        !.customer = Some("cus_3"), !.client_reference_id = Some("ref_1"),
        !.customer_email = Some("a@b.c"), !.created = Some(T1),
        !.metadata = Some([plan |-> "basic"]) ]

\* sessions with one field sent besides the subscription, and sessions
\* without a subscription
Sessions ==
    { BareSession, FullSession }
    \cup { [BareSession EXCEPT ![fv[1]] = fv[2]] :
             fv \in { <<"customer", Some("cus_3")>>,
                      <<"client_reference_id", Some("ref_1")>>,
                      <<"created", Some(0)>>, <<"created", Some(T2)>>,
                      <<"metadata", Some(<<>>)>>,
                      <<"metadata", Some([plan |-> "pro"])>> } }
    \cup { [o EXCEPT !.subscription = None] : o \in {BareSession, FullSession} }

CheckoutEvents == { Event(CHECKOUT, o, None) : o \in Sessions }

\* subscription objects whose id is missing
NoIdObjects ==
    { [o EXCEPT !.id = None] :
        o \in {[BareSubscription EXCEPT !.status = Some("active")], FullSubscription} }

\* full objects with one timestamp that is not a number
MalformedObjects ==
    { [FullSubscription EXCEPT ![f] = Some(NonNumeric)] :
        f \in {"created", "start_date", "cancel_at", "canceled_at"} }

\* previous_attributes that carry no usable cancel_at: a zero, another key, {}
OtherPreviousAttributes ==
    { Some([cancel_at |-> Some(0)]), Some([status |-> Some("trialing")]), Some(<<>>) }

\* events at the edges of the payload contract
EdgeEvents ==
    { Event(UPDATED, o, None) : o \in NoIdObjects \cup MalformedObjects }
    \cup { Event(UPDATED, FullSubscription, Some([cancel_at |-> Some(NonNumeric)])),
           Event(UPDATED, [FullSubscription EXCEPT !.cancel_at = Some(NonNumeric)],
                 Some([cancel_at |-> Some(T1)])),
           Event(CHECKOUT, [FullSession EXCEPT !.created = Some(NonNumeric)], None),
           Event(CHECKOUT, FullSession, Some([cancel_at |-> Some(T1)])) }
    \cup { Event(UPDATED, o, p) :
             o \in {BareSubscription,
                    [BareSubscription EXCEPT !.cancel_at = Some(T2), !.status = Some("active")]},
             p \in OtherPreviousAttributes }

\* a request that passes the UUID check and construct_event
Verified(event) == [uuid_ok |-> TRUE, construct_event |-> "ok", event |-> event]

\* the requests the reconciliation of events is explored with
ReconcileRequests ==
    { Verified(e) : e \in SubscriptionEvents \cup CheckoutEvents \cup EdgeEvents }

\* the requests the dispatcher is explored with: one of each path through
\* stripe_webhook and the handlers
DispatchEvents ==
    { Event(UPDATED, FullSubscription, None),
      Event(UPDATED, [BareSubscription EXCEPT !.id = None, !.status = Some("active")], None),
      Event(CREATED, [BareSubscription EXCEPT !.status = Some("trialing")], None),
      Event(CHECKOUT, FullSession, None),
      Event(CHECKOUT, [FullSession EXCEPT !.subscription = None], None),
      Event(UNHANDLED, [id |-> Some("in_1")], None) }

Requests ==
    { Verified(e) : e \in DispatchEvents }
    \cup { [uuid_ok |-> u, construct_event |-> c, event |-> Event(UPDATED, FullSubscription, None)] :
             u \in BOOLEAN, c \in {"ok", "ValueError", "SignatureVerificationError"} }

Workers == {1, 2}

----------------------------------------------------------------------------
(* State machine *)

NoRequest == [served |-> FALSE]

Init ==
    /\ registry = ImportedRegistry
    /\ store = <<>>
    /\ orphans = <<>>
    /\ clock = 0
    /\ tz \in TZOffsets
    /\ last = NoRequest
    /\ pc = [w \in Workers |-> "idle"]
    /\ job = [w \in Workers |-> None]

RegisteredByProject ==
    LET RECURSIVE Sum(_)
        Sum(S) == IF S = {} THEN 0
                  ELSE LET t == CHOOSE x \in S : TRUE
                       IN  Len(registry[t]) + Sum(S \ {t})
    IN  Sum(DOMAIN registry) - 3

\* @stripe_webhook_handler(event_type) applied to a project's function while
\* the project's modules are imported, before the first request is served
Register ==
    /\ clock = 0
    /\ RegisteredByProject < MaxRegistrations
    /\ \E event_type \in {UPDATED, UNHANDLED}, func \in ProjectHandlers :
          registry' = stripe_webhook_handler(registry, event_type, func)
    /\ UNCHANGED <<store, orphans, clock, tz, last, pc, job>>

\* stripe_webhook(request, hook_uuid), run to completion
stripe_webhook(request) ==
    /\ clock < MaxRequests
    /\ \E now \in {clock + 1} :
       \E r \in {serve(registry, store, orphans, request, now, tz)} :
           /\ clock' = now
           /\ store' = r.store
           /\ orphans' = r.orphans
           /\ last' = [ served      |-> TRUE,
                        request     |-> request,
                        pre         |-> store,
                        pre_orphans |-> orphans,
                        status      |-> r.status,
                        body        |-> r.body,
                        calls       |-> r.calls,
                        no_handlers |-> r.no_handlers ]
    /\ UNCHANGED <<registry, tz, pc, job>>

Receive == \E request \in Requests : stripe_webhook(request)

Reconcile == \E request \in ReconcileRequests : stripe_webhook(request)

Next == Register \/ Receive

\* the dispatcher: project handlers registered at start-up, then requests of
\* every kind
Spec == Init /\ [][Next]_vars

\* the reconciliation: litestripe's own handlers over the subscription and
\* checkout events
ReconcileSpec == Init /\ [][Reconcile]_vars

----------------------------------------------------------------------------
(* Two workers serving requests at the same time.  A handler's database    *)
(* statements are the steps: the SELECT and the INSERT of get_or_create,   *)
(* and the UPDATE of save().  The code opens no transaction and takes no   *)
(* row lock, and stripe_subscription_id has no unique constraint, so the   *)
(* statements of two requests interleave freely.                           *)

ConcurrentEvents ==
    { Event(UPDATED, [BareSubscription EXCEPT !.status = Some("active")], None),
      Event(UPDATED, [BareSubscription EXCEPT !.cancel_at = Some(T1)], None),
      Event(UPDATED, FullSubscription, Some([cancel_at |-> Some(T1)])),
      Event(CREATED, [BareSubscription EXCEPT !.customer = Some("cus_1")], None),
      Event(CHECKOUT, FullSession, None),
      Event(CHECKOUT, [BareSession EXCEPT !.client_reference_id = Some("ref_1")], None) }

\* the id a handler looks its row up with: lines 25 and 140
LookupId(event) ==
    IF event.type = CHECKOUT THEN Get(event.data.object, "subscription")
    ELSE Get(event.data.object, "id")

\* the in-memory merge the event's handler does between lookup and save
MergeOf(obj, event, now, offset) ==
    IF event.type = CHECKOUT
    THEN merge_checkout(obj, event.data.object, offset)
    ELSE merge_subscription(obj, event.type, event.data.object,
                            IF TruthyDict(event.data.previous_attributes)
                            THEN event.data.previous_attributes ELSE None,
                            now, offset)

\* a worker receives a verified request and enters the event's handler
Accept(w) ==
    /\ pc[w] = "idle"
    /\ \E event \in ConcurrentEvents :
          /\ clock' = clock + 1
          /\ job' = [job EXCEPT ![w] = Some([event |-> event, now |-> clock + 1,
                                              obj |-> None, raised |-> ""])]
          /\ pc' = [pc EXCEPT ![w] = "select"]
    /\ UNCHANGED <<registry, store, orphans, tz, last>>

\* get_or_create, the SELECT (QuerySet.get)
Select(w) ==
    /\ pc[w] = "select"
    /\ LET j == The(job[w])
           m == Matching(store, LookupId(j.event))
       IN  IF Cardinality(m) > 1
           THEN /\ job' = [job EXCEPT ![w] = Some([j EXCEPT !.raised = "MultipleObjectsReturned"])]
                /\ pc' = [pc EXCEPT ![w] = "done"]
           ELSE IF Cardinality(m) = 1
           THEN /\ job' = [job EXCEPT ![w] = Some([j EXCEPT !.obj = Some(store[CHOOSE i \in m : TRUE])])]
                /\ pc' = [pc EXCEPT ![w] = "save"]
           ELSE /\ job' = job
                /\ pc' = [pc EXCEPT ![w] = "insert"]
    /\ UNCHANGED <<registry, store, orphans, clock, tz, last>>

\* get_or_create, the INSERT (QuerySet.create) after DoesNotExist
Insert(w) ==
    /\ pc[w] = "insert"
    /\ LET j == The(job[w])
           row == NewSubscription(Len(store) + 1, The(LookupId(j.event)), j.now)
       IN  /\ store' = Append(store, row)
           /\ job' = [job EXCEPT ![w] = Some([j EXCEPT !.obj = Some(row)])]
    /\ pc' = [pc EXCEPT ![w] = "save"]
    /\ UNCHANGED <<registry, orphans, clock, tz, last>>

\* the merge into the object read earlier, then subscription.save()
Save(w) ==
    /\ pc[w] = "save"
    /\ LET j == The(job[w])
       IN  store' = save(store, MergeOf(The(j.obj), j.event, j.now, tz), j.now)
    /\ pc' = [pc EXCEPT ![w] = "done"]
    /\ UNCHANGED <<registry, orphans, clock, tz, last, job>>

ConcurrentNext == \E w \in Workers : Accept(w) \/ Select(w) \/ Insert(w) \/ Save(w)

ConcurrentSpec == Init /\ [][ConcurrentNext]_vars

----------------------------------------------------------------------------
(* Properties *)

\* the last request passed the UUID check and construct_event
Dispatched ==
    /\ last.served
    /\ last.request.uuid_ok
    /\ last.request.construct_event = "ok"

\* registry.get(event_type, []) for the last request's event
HandlersOfLast ==
    IF last.request.event.type \in DOMAIN registry
    THEN registry[last.request.event.type] ELSE <<>>

\* C1: every handler registered for the dispatched event's type is invoked
\* exactly once, in registration order, whether or not an earlier one raised.
C1_EveryHandlerInvoked ==
    Dispatched =>
        /\ Len(last.calls) = Len(HandlersOfLast)
        /\ \A i \in DOMAIN last.calls : last.calls[i].handler = HandlersOfLast[i]

\* a dispatch in which a handler raised and a later handler was still invoked
C1_Witness ==
    /\ Dispatched
    /\ \E i, k \in DOMAIN last.calls :
          /\ i < k
          /\ last.calls[i].raised # ""
          /\ last.calls[k].handler = HandlersOfLast[k]

\* C2: a verified event is always answered 200 {"status": "success"}: with no
\* handler registered, with all handlers succeeding, with any of them raising.
C2_AlwaysAcknowledged ==
    Dispatched => last.status = 200 /\ last.body = "success"

\* a dispatch that was acknowledged although a handler raised
C2_Witness ==
    /\ Dispatched
    /\ last.status = 200
    /\ \E i \in DOMAIN last.calls : last.calls[i].raised # ""

\* the event of the last request and its data.object
LastEvent == last.request.event

Payload == LastEvent.data.object

\* the last request ran exactly the handler h, which returned normally
Handled(h) ==
    /\ Dispatched
    /\ last.calls = <<[handler |-> h, raised |-> ""]>>

\* the last request reconciled an event into the row of its subscription id
Reconciled ==
    \/ Handled(HCSU)
    \/ Handled(HCSC) /\ TruthyStr(Get(Payload, "subscription"))

RowOf(st, sid) == st[CHOOSE i \in Matching(st, sid) : TRUE]

\* the row of the last event's subscription before and after the request
HadRow == Matching(last.pre, LookupId(LastEvent)) # {}

PreRow == RowOf(last.pre, LookupId(LastEvent))

PostRow == RowOf(store, LookupId(LastEvent))

\* the stored metadata before the request: {} when there was no row yet
PreMetadata == IF HadRow THEN get_metadata(PreRow) ELSE <<>>

\* the payload key each row field is fed from, per handler
PayloadKey ==
    IF LastEvent.type = CHECKOUT
    THEN [ stripe_customer_id  |-> "customer",
           client_reference_id |-> "client_reference_id",
           created             |-> "created" ]
    ELSE [ stripe_customer_id   |-> "customer",
           status               |-> "status",
           created              |-> "created",
           start_date           |-> "start_date",
           cancel_at            |-> "cancel_at",
           cancelled_at         |-> "canceled_at",
           cancel_at_period_end |-> "cancel_at_period_end" ]

StringFields == {"stripe_customer_id", "client_reference_id", "status"}

TimeFields == {"created", "start_date", "cancel_at", "cancelled_at"}

DataFields == StringFields \cup TimeFields \cup {"cancel_at_period_end"}

\* the row field f gets no value from the last event's payload
Absent(f) == f \notin DOMAIN PayloadKey \/ Get(Payload, PayloadKey[f]) = None

\* the payload's metadata dict, {} when not sent
PayloadMetadata ==
    IF Get(Payload, "metadata") = None THEN <<>> ELSE The(Payload.metadata)

\* the last event was taken for a renewal: its previous_attributes.cancel_at
\* is the cancel_at the row had stored
RenewalDetected ==
    /\ Handled(HCSU)
    /\ HadRow
    /\ check_subscription_renewal(PreRow,
          IF TruthyDict(LastEvent.data.previous_attributes)
          THEN LastEvent.data.previous_attributes ELSE None, tz)

SameButLastUpdated(a, b) ==
    [a EXCEPT !.dt_last_updated = 0] = [b EXCEPT !.dt_last_updated = 0]

\* C3: applying a subscription event a second time leaves the row as the first
\* application left it, in every field but dt_last_updated.
C3_Idempotent ==
    Handled(HCSU) =>
        LET again == handle_customer_subscription_updated(store, orphans, LastEvent,
                                                          clock + 1, tz)
        IN  /\ again.raised = ""
            /\ Len(again.store) = Len(store)
            /\ \A i \in DOMAIN store : SameButLastUpdated(again.store[i], store[i])

\* C4 as claimed: every row field the second event's payload does not send
\* keeps the value it had, and so does the metadata when none is sent.
C4_AbsentFieldsKept ==
    (Reconciled /\ HadRow) =>
        /\ \A f \in DataFields : Absent(f) => PostRow[f] = PreRow[f]
        /\ DOMAIN PayloadMetadata = {} => get_metadata(PostRow) = PreMetadata

\* C4 as amended: the same, except that an event taken for a renewal clears
\* cancel_at and cancelled_at and stamps the last_renewed metadata key.
C4_AbsentFieldsKeptUnlessRenewed ==
    (Reconciled /\ HadRow) =>
        /\ \A f \in DataFields :
              (Absent(f) /\ ~(RenewalDetected /\ f \in {"cancel_at", "cancelled_at"}))
                  => PostRow[f] = PreRow[f]
        /\ RenewalDetected =>
              /\ PostRow.cancel_at = None
              /\ PostRow.cancelled_at = None
              /\ LAST_RENEWED \in DOMAIN get_metadata(PostRow)
        /\ DOMAIN PayloadMetadata = {} =>
              \A k \in (DOMAIN get_metadata(PostRow)) \cup (DOMAIN PreMetadata) :
                  (RenewalDetected /\ k = LAST_RENEWED) \/
                  /\ k \in DOMAIN get_metadata(PostRow)
                  /\ k \in DOMAIN PreMetadata
                  /\ get_metadata(PostRow)[k] = PreMetadata[k]

\* a second event that sends neither status nor start_date nor metadata, on a
\* row that has all three: they are kept
C4_Witness ==
    /\ Reconciled
    /\ HadRow
    /\ Absent("status") /\ PreRow.status = "active" /\ PostRow.status = "active"
    /\ Absent("start_date") /\ PreRow.start_date # None
    /\ PostRow.start_date = PreRow.start_date
    /\ DOMAIN PayloadMetadata = {} /\ DOMAIN PreMetadata # {}
    /\ get_metadata(PostRow) = PreMetadata

\* C5: a row with cancel_at = T that receives an update whose
\* previous_attributes.cancel_at is T ends with cancel_at and cancelled_at
\* cleared and the last_renewed metadata key set, whatever cancel_at and
\* canceled_at the payload itself carries.
C5_RenewalSuppression ==
    ( /\ Handled(HCSU)
      /\ HadRow
      /\ LastEvent.data.previous_attributes # None
      /\ PreRow.cancel_at # None
      /\ PreRow.cancel_at =
            convert_to_datetime(Get(The(LastEvent.data.previous_attributes), "cancel_at"), tz) )
    => /\ PostRow.cancel_at = None
       /\ PostRow.cancelled_at = None
       /\ LAST_RENEWED \in DOMAIN get_metadata(PostRow)

\* a renewal whose own payload carries another cancel_at and a canceled_at
C5_Witness ==
    /\ Handled(HCSU)
    /\ HadRow
    /\ PreRow.cancel_at = convert_to_datetime(Some(T1), tz)
    /\ LastEvent.data.previous_attributes = Some([cancel_at |-> Some(T1)])
    /\ Payload.cancel_at = Some(T2)
    /\ Payload.canceled_at = Some(T2)
    /\ PostRow.cancel_at = None
    /\ PostRow.cancelled_at = None
    /\ LAST_RENEWED \in DOMAIN get_metadata(PostRow)

\* C6: a checkout.session.completed event without a subscription creates
\* exactly one OrphanedPayment, with reason "missing subscription id", and
\* creates or changes no StripeSubscription row.
C6_OrphanRecorded ==
    ( /\ Dispatched
      /\ LastEvent.type = CHECKOUT
      /\ Get(Payload, "subscription") = None )
    => /\ Len(orphans) = Len(last.pre_orphans) + 1
       /\ orphans[Len(orphans)].reason = "missing subscription id"
       /\ store = last.pre

\* the metadata keys the last event's payload metadata is written under
WrittenKeys == { NsKey(LastEvent.type, k) : k \in DOMAIN PayloadMetadata }

\* the payload metadata key a written key comes from
SourceKey(nk) == CHOOSE k \in DOMAIN PayloadMetadata : NsKey(LastEvent.type, k) = nk

\* C9 as claimed: reconciling an event of type t with metadata M writes
\* exactly the keys "t.k", k in M, with M's values, and leaves every other
\* key and value as it was.
C9_MetadataNamespaced ==
    Reconciled =>
        LET post == get_metadata(PostRow)
        IN  /\ DOMAIN post = (DOMAIN PreMetadata) \cup WrittenKeys
            /\ \A nk \in WrittenKeys : post[nk] = PayloadMetadata[SourceKey(nk)]
            /\ \A k \in (DOMAIN PreMetadata) \ WrittenKeys : post[k] = PreMetadata[k]

\* C9 as amended: the same, except that an event taken for a renewal also
\* writes the key litestripe.stripesubscription.last_renewed.
C9_MetadataNamespacedOrRenewed ==
    Reconciled =>
        LET post == get_metadata(PostRow)
            stamped == IF RenewalDetected THEN {LAST_RENEWED} ELSE {}
        IN  /\ DOMAIN post = (DOMAIN PreMetadata) \cup WrittenKeys \cup stamped
            /\ \A nk \in WrittenKeys \ stamped : post[nk] = PayloadMetadata[SourceKey(nk)]
            /\ \A k \in (DOMAIN PreMetadata) \ (WrittenKeys \cup stamped) :
                  post[k] = PreMetadata[k]

\* customer.subscription.updated with {plan: pro}, then
\* checkout.session.completed with {plan: basic}: both keys are there
C9_Witness ==
    /\ Handled(HCSC)
    /\ HadRow
    /\ PayloadMetadata = [plan |-> "basic"]
    /\ NsKey(UPDATED, "plan") \in DOMAIN PreMetadata
    /\ NsKey(UPDATED, "plan") \in DOMAIN get_metadata(PostRow)
    /\ get_metadata(PostRow)[NsKey(UPDATED, "plan")] = "pro"
    /\ NsKey(CHECKOUT, "plan") \in DOMAIN get_metadata(PostRow)
    /\ get_metadata(PostRow)[NsKey(CHECKOUT, "plan")] = "basic"

\* C10: every optional field a subscription event sends is, after the
\* reconciliation, the converted payload value: a Unix timestamp as the UTC
\* instant it denotes, any other value copied.
C10_FieldsMerged ==
    Handled(HCSU) =>
        /\ \A f \in StringFields \cap DOMAIN PayloadKey :
              ~Absent(f) => PostRow[f] = The(Payload[PayloadKey[f]])
        /\ \A f \in TimeFields :
              ~Absent(f) => PostRow[f] = Some(The(Payload[PayloadKey[f]]))
        /\ ~Absent("cancel_at_period_end") =>
              PostRow.cancel_at_period_end = Payload.cancel_at_period_end

\* a worker has finished its handler
Finished(w) == pc[w] = "done"

\* C7: there is never more than one StripeSubscription row per
\* stripe_subscription_id, and exactly one once an event for the id has been
\* reconciled, also when two deliveries see the id for the first time together.
C7_OneRowPerSubscription ==
    /\ \A i, k \in DOMAIN store :
          store[i].stripe_subscription_id = store[k].stripe_subscription_id => i = k
    /\ \A w \in Workers :
          (Finished(w) /\ The(job[w]).raised = "") =>
              Cardinality(Matching(store, LookupId(The(job[w]).event))) = 1

\* the table without its audit stamps
StripAudit(st) ==
    [i \in DOMAIN st |-> [st[i] EXCEPT !.dt_created = 0, !.dt_last_updated = 0]]

\* the table after worker a's event and then worker b's event, each handled
\* without interruption, starting from the empty table
Serial(a, b) ==
    LET ja == The(job[a])
        jb == The(job[b])
        ra == CallHandler(ImportedRegistry[ja.event.type][1], <<>>, <<>>, ja.event, ja.now, tz)
    IN  CallHandler(ImportedRegistry[jb.event.type][1], ra.store, ra.orphans,
                    jb.event, jb.now, tz).store

\* C8: once two concurrent dispatches have both completed, the table is the
\* one that handling the two events one after the other, in one of the two
\* orders, produces.
C8_NoLostUpdate ==
    (\A w \in Workers : Finished(w)) =>
        \/ StripAudit(store) = StripAudit(Serial(1, 2))
        \/ StripAudit(store) = StripAudit(Serial(2, 1))

----------------------------------------------------------------------------
(* Payloads outside the contract *)

\* the last request ran exactly the handler h, whatever its outcome
Ran(h) ==
    /\ Dispatched
    /\ Len(last.calls) = 1
    /\ last.calls[1].handler = h

\* C11: a subscription event whose payload has no id is rejected with a
\* MissingIdentifier failure before any lookup-or-create is made, so no row is
\* created or changed.
C11_MissingIdentifierRejected ==
    (Ran(HCSU) /\ Get(Payload, "id") = None) =>
        /\ last.calls[1].raised = "MissingIdentifier"
        /\ store = last.pre

\* the timestamp keys of the last payload whose value is not a number
BadKeys ==
    { k \in {"created", "start_date", "cancel_at", "canceled_at"} :
        convert_raises(Get(Payload, k)) }

\* C12: when one field of a subscription event violates the data shape (a
\* timestamp that is not a number), the handler does not fail: the field keeps
\* its stored value, and every other field and metadata entry the event sends
\* is merged and saved.
C12_FailClosedPerField ==
    (Ran(HCSU) /\ Get(Payload, "id") # None
       /\ (BadKeys # {} \/ renewal_check_raises(LastEvent.data.previous_attributes))) =>
        /\ last.calls[1].raised = ""
        /\ Matching(store, Payload.id) # {}
        /\ \A f \in StringFields \cap DOMAIN PayloadKey :
              TruthyStr(Get(Payload, PayloadKey[f])) =>
                  PostRow[f] = The(Payload[PayloadKey[f]])
        /\ \A k \in DOMAIN PayloadMetadata :
              get_metadata_key(PostRow, NsKey(LastEvent.type, k)) = Some(PayloadMetadata[k])
        /\ \A f \in TimeFields :
              (PayloadKey[f] \in BadKeys /\ ~RenewalDetected) =>
                  PostRow[f] = IF HadRow THEN PreRow[f] ELSE None

----------------------------------------------------------------------------
(* The registry *)

\* a step that changes the registry appends exactly one handler to the end of
\* one type's list, creating the list if the type had none, and leaves every
\* other list as it was
RegistryAppends ==
    registry' # registry =>
        \E t \in DOMAIN registry' :
            /\ DOMAIN registry' = (DOMAIN registry) \cup {t}
            /\ \A u \in (DOMAIN registry) \ {t} : registry'[u] = registry[u]
            /\ LET old == IF t \in DOMAIN registry THEN registry[t] ELSE <<>>
               IN  /\ Len(registry'[t]) = Len(old) + 1
                   /\ SubSeq(registry'[t], 1, Len(old)) = old
                   /\ registry'[t][Len(old) + 1] \in ProjectHandlers

\* a verified request whose type has no entry is served with the empty
\* sequence of handlers and without an error, and no entry is added for it
LookupOfUnknown ==
    (clock' # clock /\ Dispatched' /\ LastEvent'.type \notin DOMAIN registry) =>
        /\ registry' = registry
        /\ last'.calls = <<>>
        /\ last'.no_handlers
        /\ last'.status = 200

\* C13: registering appends to the type's ordered list, so several handlers of
\* one type stay in registration order and none is dropped or replaced; the
\* lookup of a type never registered yields the empty sequence, is no error,
\* and adds no entry to the registry.
C13_RegistryOrdered == [][RegistryAppends /\ LookupOfUnknown]_vars

\* two project handlers registered after litestripe's own for one type, in
\* that order, and a request of a type nobody registered for
C13_Witness ==
    /\ UPDATED \in DOMAIN registry
    /\ registry[UPDATED] = <<HCSU, PROJECT_RAISES, PROJECT_OK>>
    /\ Dispatched
    /\ LastEvent.type \notin DOMAIN registry
    /\ last.calls = <<>>
    /\ last.no_handlers

----------------------------------------------------------------------------
(* The dispatch report: the per-handler records stripe_webhook logs *)

\* how the call of handler h on the last event ends: "" for a normal return,
\* else the exception.  The project's second handler always raises; litestripe's
\* subscription handler fails on a payload without id.
OutcomeOf(h) ==
    IF h = PROJECT_RAISES THEN "RuntimeError"
    ELSE IF h = HCSU /\ Get(Payload, "id") = None THEN "IntegrityError"
    ELSE ""

\* C14: for an event whose type has n handlers the dispatch records exactly n
\* outcomes, in invocation order, each naming its handler and being a success
\* or the captured failure with its error; for n = 0 it records the single
\* outcome that no handler is registered.
C14_DispatchReport ==
    Dispatched =>
        IF Len(HandlersOfLast) = 0
        THEN last.no_handlers /\ last.calls = <<>>
        ELSE /\ ~last.no_handlers
             /\ DOMAIN last.calls = DOMAIN HandlersOfLast
             /\ \A i \in DOMAIN HandlersOfLast :
                   last.calls[i] = [ handler |-> HandlersOfLast[i],
                                     raised  |-> OutcomeOf(HandlersOfLast[i]) ]

\* a report of three outcomes: a failure of litestripe's handler, the failure
\* of a project handler, then a success
C14_Witness ==
    /\ Dispatched
    /\ last.calls = << [handler |-> HCSU, raised |-> "IntegrityError"],
                       [handler |-> PROJECT_RAISES, raised |-> "RuntimeError"],
                       [handler |-> PROJECT_OK, raised |-> ""] >>
    /\ ~last.no_handlers

----------------------------------------------------------------------------
(* Renewal detection *)

\* previous_attributes.cancel_at of the last event, None when not carried
PreviousCancelAt ==
    LET p == LastEvent.data.previous_attributes
    IN  IF p # None /\ "cancel_at" \in DOMAIN The(p) THEN The(p).cancel_at ELSE None

\* the cancel_at the row had stored before the last event: None without a row
StoredCancelAt == IF HadRow THEN PreRow.cancel_at ELSE None

\* the previous cancel_at converts to a datetime, and to the stored one
RenewalCondition ==
    /\ convert_to_datetime(PreviousCancelAt, tz) # None
    /\ StoredCancelAt = convert_to_datetime(PreviousCancelAt, tz)

\* the last_renewed entry of the row before the last event
StoredLastRenewed == IF HadRow THEN get_metadata_key(PreRow, LAST_RENEWED) ELSE None

\* C15: a subscription event is taken for a renewal (last_renewed stamped with
\* the time of this event, cancel_at and cancelled_at cleared) if and only if
\* its previous_attributes carry a cancel_at whose converted value is the
\* cancel_at stored before the event's updates.  Otherwise last_renewed is not
\* written and the two fields follow the ordinary rule: the payload's value
\* when sent, the stored one when not.
C15_RenewalRule ==
    Handled(HCSU) =>
        /\ RenewalCondition <=>
              get_metadata_key(PostRow, LAST_RENEWED) = Some(ToString(clock))
        /\ RenewalCondition =>
              /\ PostRow.cancel_at = None
              /\ PostRow.cancelled_at = None
        /\ ~RenewalCondition =>
              /\ get_metadata_key(PostRow, LAST_RENEWED) = StoredLastRenewed
              /\ PostRow.cancel_at =
                    IF Get(Payload, "cancel_at") # None
                    THEN convert_to_datetime(Payload.cancel_at, tz) ELSE StoredCancelAt
              /\ PostRow.cancelled_at =
                    IF Get(Payload, "canceled_at") # None
                    THEN convert_to_datetime(Payload.canceled_at, tz)
                    ELSE IF HadRow THEN PreRow.cancelled_at ELSE None

\* an update that carries a previous cancel_at other than the stored one and
\* sends a new cancel_at: no renewal, the new value is stored
C15_Witness ==
    /\ Handled(HCSU)
    /\ HadRow
    /\ PreRow.cancel_at = convert_to_datetime(Some(T1), tz)
    /\ PreviousCancelAt = Some(T2)
    /\ Get(Payload, "cancel_at") = Some(T2)
    /\ PostRow.cancel_at = convert_to_datetime(Some(T2), tz)
    /\ get_metadata_key(PostRow, LAST_RENEWED) = None

\* C16: once an event taken for a renewal has been applied and has cleared
\* cancel_at, applying the identical event again is not taken for a renewal:
\* the stored cancel_at is no longer the event's previous cancel_at, and
\* last_renewed keeps the stamp of the first application.
C16_NoDoubleFire ==
    RenewalDetected =>
        /\ PostRow.cancel_at = None
        /\ ~check_subscription_renewal(PostRow, LastEvent.data.previous_attributes, tz)
        /\ LET again == handle_customer_subscription_updated(store, orphans, LastEvent,
                                                             clock + 1, tz)
           IN  get_metadata_key(RowOf(again.store, LookupId(LastEvent)), LAST_RENEWED)
                  = Some(ToString(clock))

\* a renewal was applied: the row that had the previous cancel_at stored now
\* has none and carries the stamp of this event
C16_Witness ==
    /\ RenewalDetected
    /\ PreRow.cancel_at = convert_to_datetime(PreviousCancelAt, tz)
    /\ PostRow.cancel_at = None
    /\ get_metadata_key(PostRow, LAST_RENEWED) = Some(ToString(clock))

----------------------------------------------------------------------------
(* The checkout handler's frame *)

\* the row the checkout handler starts from: the stored one, or the row
\* get_or_create inserts
CheckoutBase ==
    IF HadRow THEN PreRow
    ELSE NewSubscription(Len(last.pre) + 1, The(Payload.subscription), clock)

\* C17: for a checkout event with a subscription id the handler changes only
\* stripe_customer_id, client_reference_id, created and the metadata keys
\* "checkout.session.completed.<key>".  status, start_date, cancel_at,
\* cancelled_at, cancel_at_period_end and every other metadata key stay as
\* they were; no renewal is detected and last_renewed is not written.
C17_CheckoutFrame ==
    (Handled(HCSC) /\ TruthyStr(Get(Payload, "subscription"))) =>
        /\ \A f \in {"pk", "stripe_subscription_id", "dt_created", "status", "start_date",
                     "cancel_at", "cancelled_at", "cancel_at_period_end"} :
              PostRow[f] = CheckoutBase[f]
        /\ DOMAIN get_metadata(PostRow) = (DOMAIN get_metadata(CheckoutBase)) \cup WrittenKeys
        /\ \A k \in (DOMAIN get_metadata(CheckoutBase)) \ WrittenKeys :
              get_metadata(PostRow)[k] = get_metadata(CheckoutBase)[k]
        /\ LAST_RENEWED \notin WrittenKeys
        /\ \A i \in DOMAIN last.pre :
              i \notin Matching(last.pre, Payload.subscription) => store[i] = last.pre[i]

\* a checkout event that carries the stored cancel_at as a previous attribute,
\* for a row with a status and a cancel_at: both are kept, the customer changes
C17_Witness ==
    /\ Handled(HCSC)
    /\ HadRow
    /\ PreRow.status = "active"
    /\ PreRow.cancel_at = convert_to_datetime(Some(T1), tz)
    /\ PreviousCancelAt = Some(T1)
    /\ PostRow.status = "active"
    /\ PostRow.cancel_at = PreRow.cancel_at
    /\ PostRow.stripe_customer_id = "cus_3"
    /\ PreRow.stripe_customer_id = "cus_1"
    /\ get_metadata_key(PostRow, LAST_RENEWED) = None

----------------------------------------------------------------------------
(* Zero timestamps *)

\* C18: in both handlers a timestamp field sent as 0 is a sent value: after
\* the reconciliation the row field is the timestamp 0 (unless a detected
\* renewal clears the cancellation fields), not NULL and not the value that
\* was stored before.
C18_ZeroIsSent ==
    Reconciled =>
        \A f \in TimeFields \cap DOMAIN PayloadKey :
            ( /\ Get(Payload, PayloadKey[f]) = Some(0)
              /\ ~(RenewalDetected /\ f \in {"cancel_at", "cancelled_at"}) )
                => PostRow[f] = Some(0)

----------------------------------------------------------------------------
(* The verification gate *)

\* C19: a request whose URL UUID does not match is answered 404, one whose
\* payload or signature fails construct_event is answered 400, and neither
\* reaches the dispatch: no handler is invoked, no no-handler outcome is
\* recorded, and no StripeSubscription or OrphanedPayment row is created or
\* changed.
C19_VerificationGate ==
    (last.served /\ ~Dispatched) =>
        /\ last.status = IF last.request.uuid_ok THEN 400 ELSE 404
        /\ last.calls = <<>>
        /\ ~last.no_handlers
        /\ store = last.pre
        /\ orphans = last.pre_orphans

\* a request with the right UUID and a bad signature, carrying an event that
\* has two handlers registered and would have created the row of sub_1
C19_Witness ==
    /\ last.served
    /\ last.request.uuid_ok
    /\ last.request.construct_event = "SignatureVerificationError"
    /\ last.status = 400
    /\ Len(HandlersOfLast) = 2
    /\ Matching(store, LookupId(LastEvent)) = {}
    /\ last.calls = <<>>

----------------------------------------------------------------------------
(* Failure atomicity *)

\* C20: when litestripe's subscription or checkout handler raises before its
\* final save, the store is exactly as it was before the handler started: no
\* row is changed and no new row remains for the event's subscription id.
C20_FailureAtomic ==
    ((Ran(HCSU) \/ Ran(HCSC)) /\ last.calls[1].raised # "") => store = last.pre

====
